---- MODULE Spec2Model ----
(***************************************************************************)
(* Topological core of FoamGrid: the grid factory (coarse construction and *)
(* edge discovery), the refinement tree, the index passes and the level,   *)
(* leaf and hierarchic iterators, as one state machine.                    *)
(*                                                                         *)
(* An entity is referred to by its position (1, 2, ...) in the list that   *)
(* stores its kind; 0 is the null pointer.  The per-level std::lists of    *)
(* entityImps_ are the sub-lists of one level, in list order.              *)
(***************************************************************************)
EXTENDS Integers, Sequences, FiniteSets, TLC

\* ---------------------------------------------------------------- bounds
MaxVertices == 5
MaxElements == 3
MaxCreateCalls == 2
MaxRefinements == 2
MaxLevel == 1
MaxPassVertices == 4
MaxPassLevel == 2
MaxTreeLevel == 2

\* ------------------------------------------------------ program constants
dim == 2
corners == 3
NULL == 0
Unset == -1

VARIABLES
    entityImps_,      \* [vertices, edges, elements]: the entity lists of the grid
    freeIdCounter_,   \* the id counter of each dimension 0, 1, 2
    grid_,            \* the factory's grid pointer: "grid" or "NULL"
    created,          \* the values returned by the createGrid calls so far
    indexSets,        \* the level index sets and the leaf index set of the grid
    refinements,      \* number of refinement steps taken
    it,               \* the level intersection iterator under observation
    lit,              \* the leaf intersection iterator under observation
    hit,              \* the hierarchic iterator under observation
    call              \* the last operation on the grid and how it ended

vars == <<entityImps_, freeIdCounter_, grid_, created, indexSets, refinements,
          it, lit, hit, call>>

Vertices == entityImps_.vertices
Edges    == entityImps_.edges
Elements == entityImps_.elements

\* --------------------------------------------------------------- helpers
\* number of positions j < i of s whose entry satisfies level = L
RankAtLevel(s, i, L) == Cardinality({j \in 1..(i-1) : s[j].level = L})

CountAtLevel(s, L) == Cardinality({j \in 1..Len(s) : s[j].level = L})

MaxOf(S) == CHOOSE m \in S : \A x \in S : x <= m

maxLevel(ents) ==
    MaxOf({0} \cup {ents.vertices[j].level : j \in 1..Len(ents.vertices)}
              \cup {ents.elements[j].level : j \in 1..Len(ents.elements)})

\* ------------------------------------------------------------ entities
\* FoamGridVertex(level, pos, id); the position is geometry and is left out
NewVertex(level, id) ==
    [level |-> level, id |-> id, son |-> NULL,
     levelIndex |-> Unset, leafIndex |-> Unset]

\* an edge constructor that initialises nSons_ with 2
NewEdgeTwoSonsCounted(v0, v1, level, id, father) ==
    [level |-> level, id |-> id, vertex |-> <<v0, v1>>, elements |-> <<>>,
     sons |-> <<NULL, NULL>>, nSons |-> 2, father |-> father,
     boundaryId |-> Unset, levelIndex |-> Unset, leafIndex |-> Unset]

\* FoamGridEntityImp<1>(v0, v1, level, id, father)
NewEdge(v0, v1, level, id, father) ==
    [level |-> level, id |-> id, vertex |-> <<v0, v1>>, elements |-> <<>>,
     sons |-> <<NULL, NULL>>, nSons |-> 0, father |-> father,
     boundaryId |-> Unset, levelIndex |-> Unset, leafIndex |-> Unset]

\* an element that takes its corners in the reverse order
NewElementReversed(level, id, vertex) ==
    [level |-> level, id |-> id, vertex |-> <<vertex[3], vertex[2], vertex[1]>>,
     edges |-> <<NULL, NULL, NULL>>, sons |-> <<>>, father |-> NULL,
     levelIndex |-> Unset, leafIndex |-> Unset]

\* FoamGridElement(level, id)
NewElement(level, id, vertex) ==
    [level |-> level, id |-> id, vertex |-> vertex,
     edges |-> <<NULL, NULL, NULL>>, sons |-> <<>>, father |-> NULL,
     levelIndex |-> Unset, leafIndex |-> Unset]

EdgeIsLeaf(e) == e.sons[1] = NULL

ElementIsLeaf(t) == t.sons = <<>>

VertexIsLeaf(v) == v.son = NULL

\* reference triangle: local vertex j (0 or 1) of local edge i (0, 1, 2),
\* as a 1-based corner position
subEntity(i, j) ==
    CASE i = 0 -> IF j = 0 THEN 1 ELSE 2
      [] i = 1 -> IF j = 0 THEN 1 ELSE 3
      [] OTHER -> IF j = 0 THEN 2 ELSE 3

\* no iterator exists
NoIterator ==
    [center |-> NULL, edge |-> 0, edgeIndex_ |-> 0, neighborIndex_ |-> 0,
     neighbor_ |-> Unset]

\* no leaf intersection iterator exists
NoLeafIterator == [center |-> NULL]

\* no hierarchic iterator exists
NoHierarchicIterator == [start |-> NULL]

\* no operation has been called
NoCall == [op |-> "none", onEnd |-> FALSE, outcome |-> "none"]

NoIterators ==
    it = NoIterator /\ lit = NoLeafIterator /\ hit = NoHierarchicIterator

\* ----------------------------------------------------------- the factory
Init ==
    /\ entityImps_ = [vertices |-> <<>>, edges |-> <<>>, elements |-> <<>>]
    /\ freeIdCounter_ = [d \in 0..dim |-> 0]
    /\ grid_ = "grid"
    /\ created = <<>>
    /\ indexSets = [level |-> <<>>, leaf |-> [size_ |-> [d \in 0..dim |-> 0],
                                              myTypes_ |-> [c \in 0..dim |-> <<>>]]]
    /\ refinements = 0
    /\ it = NoIterator
    /\ lit = NoLeafIterator
    /\ hit = NoHierarchicIterator
    /\ call = NoCall

\* insertVertex that reads freeIdCounter_[0] without the ++
insertVertexCounterKept ==
    /\ grid_ = "grid"
    /\ Len(Vertices) < MaxVertices
    /\ entityImps_' = [entityImps_ EXCEPT
           !.vertices = Append(@, NewVertex(0, freeIdCounter_[0]))]
    /\ call' = [op |-> "insertVertex", onEnd |-> FALSE, outcome |-> "returned"]
    /\ UNCHANGED <<freeIdCounter_, grid_, created, indexSets, refinements,
                   it, lit, hit>>

insertVertex ==
    /\ grid_ = "grid"
    /\ Len(Vertices) < MaxVertices
    /\ entityImps_' = [entityImps_ EXCEPT
           !.vertices = Append(@, NewVertex(0, freeIdCounter_[0]))]
    /\ freeIdCounter_' = [freeIdCounter_ EXCEPT ![0] = @ + 1]
    /\ call' = [op |-> "insertVertex", onEnd |-> FALSE, outcome |-> "returned"]
    /\ UNCHANGED <<grid_, created, indexSets, refinements, it, lit, hit>>

\* corner index triples (0-based, as passed by the caller) of proper triangles
CornerTriples(n) ==
    {c \in (0..(n-1)) \X (0..(n-1)) \X (0..(n-1)) :
        c[1] # c[2] /\ c[1] # c[3] /\ c[2] # c[3]}

\* the triples a caller passes while the factory still holds its grid: no
\* two triangles on the same three vertices
NewTriples ==
    IF grid_ = "grid"
    THEN {c \in CornerTriples(Len(Vertices)) :
            \A t \in 1..Len(Elements) :
                {Elements[t].vertex[k] : k \in 1..corners}
                    # {c[1] + 1, c[2] + 1, c[3] + 1}}
    ELSE {}

\* insertElement(type, vertices): assert(type.isTriangle()) ends the process
\* in a build with assertions and is no statement in one without (NDEBUG);
\* the element takes vertices[0], vertices[1], vertices[2]
insertElement(type, vertices) ==
    /\ grid_ = "grid"
    /\ Len(Elements) < MaxElements
    /\ \E assertions \in BOOLEAN :
          IF assertions /\ type # "triangle"
          THEN /\ call' = [op |-> "insertElement", onEnd |-> FALSE,
                           outcome |-> "aborted", type |-> type,
                           vertices |-> vertices]
               /\ UNCHANGED <<entityImps_, freeIdCounter_>>
          ELSE /\ entityImps_' = [entityImps_ EXCEPT
                      !.elements = Append(@, NewElement(0, freeIdCounter_[dim],
                          <<vertices[1] + 1, vertices[2] + 1, vertices[3] + 1>>))]
               /\ freeIdCounter_' = [freeIdCounter_ EXCEPT ![dim] = @ + 1]
               /\ call' = [op |-> "insertElement", onEnd |-> FALSE,
                           outcome |-> "returned", type |-> type,
                           vertices |-> vertices]
    /\ UNCHANGED <<grid_, created, indexSets, refinements, it, lit, hit>>

\* -------------------------------------------------------- the index passes
GeometryType(d) == [dim |-> d]

\* the two loops without "numElements_ = 0" and "numVertices_ = 0": the
\* counters go on from the number of entities the level has numbered so far
LevelIndexUpdateEntitiesNoReset(ents, L) ==
    LET numbered(s) == Cardinality({j \in 1..Len(s) :
                           s[j].level = L /\ s[j].levelIndex # Unset})
    IN [ents EXCEPT
          !.elements = [j \in 1..Len(@) |->
              IF @[j].level = L
              THEN [@[j] EXCEPT !.levelIndex = numbered(ents.elements)
                                                + RankAtLevel(ents.elements, j, L)]
              ELSE @[j]],
          !.vertices = [j \in 1..Len(@) |->
              IF @[j].level = L
              THEN [@[j] EXCEPT !.levelIndex = numbered(ents.vertices)
                                                + RankAtLevel(ents.vertices, j, L)]
              ELSE @[j]]]

\* the two loops counting down from the last position of the level
LevelIndexUpdateEntitiesReversed(ents, L) ==
    [ents EXCEPT
       !.elements = [j \in 1..Len(@) |->
           IF @[j].level = L
           THEN [@[j] EXCEPT !.levelIndex = CountAtLevel(ents.elements, L) - 1
                                             - RankAtLevel(ents.elements, j, L)]
           ELSE @[j]],
       !.vertices = [j \in 1..Len(@) |->
           IF @[j].level = L
           THEN [@[j] EXCEPT !.levelIndex = CountAtLevel(ents.vertices, L) - 1
                                             - RankAtLevel(ents.vertices, j, L)]
           ELSE @[j]]]

\* the two loops run over the elements and the vertices of every level
LevelIndexUpdateEntitiesAllLevels(ents, L) ==
    [ents EXCEPT
       !.elements = [j \in 1..Len(@) |-> [@[j] EXCEPT !.levelIndex = j - 1]],
       !.vertices = [j \in 1..Len(@) |-> [@[j] EXCEPT !.levelIndex = j - 1]]]

\* FoamGridLevelIndexSet::update(grid, level): renumbers the elements and the
\* vertices of one level in list order
LevelIndexUpdateEntities(ents, L) ==
    [ents EXCEPT
       !.elements = [j \in 1..Len(@) |->
           IF @[j].level = L
           THEN [@[j] EXCEPT !.levelIndex = RankAtLevel(ents.elements, j, L)]
           ELSE @[j]],
       !.vertices = [j \in 1..Len(@) |->
           IF @[j].level = L
           THEN [@[j] EXCEPT !.levelIndex = RankAtLevel(ents.vertices, j, L)]
           ELSE @[j]]]

LevelIndexUpdateSet(ents, L) ==
    LET numElements_ == CountAtLevel(ents.elements, L)
        numVertices_ == CountAtLevel(ents.vertices, L)
    IN [level_ |-> L, numElements_ |-> numElements_, numVertices_ |-> numVertices_,
        myTypes_ |-> [c \in 0..dim |->
            CASE c = 0 -> IF numElements_ > 0 THEN <<GeometryType(1)>> ELSE <<>>
              [] c = 1 -> IF numVertices_ > 0 THEN <<GeometryType(0)>> ELSE <<>>
              [] OTHER -> <<>>]]

\* traversal orders of the leaf pass: position j is visited before position i
AscendingBefore(s, j, i) ==
    \/ s[j].level < s[i].level
    \/ s[j].level = s[i].level /\ j < i

DescendingBefore(s, j, i) ==
    \/ s[j].level > s[i].level
    \/ s[j].level = s[i].level /\ j < i

\* the vertex loop run from level 0 up to the deepest level
VertexPassBeforeShallowFirst(vs, j, i) == AscendingBefore(vs, j, i)

\* the vertex loop: for (i = maxLevel(); i >= 0; i--), each level in list
\* order
VertexPassBefore(vs, j, i) == DescendingBefore(vs, j, i)

\* the value written to vertex i: the next index for a leaf, else the
\* leafIndex_ its son_ holds at that moment
RECURSIVE VertexLeafIndex(_, _)
VertexLeafIndex(vs, i) ==
    IF VertexIsLeaf(vs[i])
    THEN Cardinality({j \in 1..Len(vs) :
             VertexIsLeaf(vs[j]) /\ VertexPassBefore(vs, j, i)})
    ELSE IF VertexPassBefore(vs, vs[i].son, i)
         THEN VertexLeafIndex(vs, vs[i].son)
         ELSE vs[vs[i].son].leafIndex

\* the element loop of the leaf pass writing through id_ instead of leafIndex_
LeafIndexUpdateEntitiesWritesId(ents) ==
    [ents EXCEPT
       !.elements = [j \in 1..Len(@) |->
           IF ElementIsLeaf(@[j])
           THEN [@[j] EXCEPT !.id = Cardinality({k \in 1..Len(ents.elements) :
                    ElementIsLeaf(ents.elements[k])
                    /\ AscendingBefore(ents.elements, k, j)})]
           ELSE @[j]],
       !.edges = [j \in 1..Len(@) |->
           [@[j] EXCEPT !.leafIndex = Cardinality({k \in 1..Len(ents.edges) :
                    DescendingBefore(ents.edges, k, j)})]],
       !.vertices = [j \in 1..Len(@) |->
           [@[j] EXCEPT !.leafIndex = VertexLeafIndex(ents.vertices, j)]]]

\* FoamGridLeafIndexSet::update(grid)
LeafIndexUpdateEntities(ents) ==
    [ents EXCEPT
       !.elements = [j \in 1..Len(@) |->
           IF ElementIsLeaf(@[j])
           THEN [@[j] EXCEPT !.leafIndex = Cardinality({k \in 1..Len(ents.elements) :
                    ElementIsLeaf(ents.elements[k])
                    /\ AscendingBefore(ents.elements, k, j)})]
           ELSE @[j]],
       !.edges = [j \in 1..Len(@) |->
           [@[j] EXCEPT !.leafIndex = Cardinality({k \in 1..Len(ents.edges) :
                    DescendingBefore(ents.edges, k, j)})]],
       !.vertices = [j \in 1..Len(@) |->
           [@[j] EXCEPT !.leafIndex = VertexLeafIndex(ents.vertices, j)]]]

LeafIndexUpdateSet(ents) ==
    LET size_ == [d \in 0..dim |->
            CASE d = dim -> Cardinality({k \in 1..Len(ents.elements) :
                                ElementIsLeaf(ents.elements[k])})
              [] d = 1   -> Len(ents.edges)
              [] OTHER   -> Cardinality({k \in 1..Len(ents.vertices) :
                                VertexIsLeaf(ents.vertices[k])})]
    IN [size_ |-> size_,
        myTypes_ |-> [c \in 0..dim |->
            IF size_[dim - c] > 0 THEN <<GeometryType(dim - c)>> ELSE <<>>]]

\* FoamGrid::setIndices: the level pass of every level, then the leaf pass
RECURSIVE LevelPasses(_, _)
LevelPasses(ents, L) ==
    IF L < 0 THEN ents
    ELSE LevelIndexUpdateEntities(LevelPasses(ents, L - 1), L)

setIndicesEntities(ents) ==
    LeafIndexUpdateEntities(LevelPasses(ents, maxLevel(ents)))

setIndicesSets(ents) ==
    [level |-> [l \in 1..(maxLevel(ents) + 1) |-> LevelIndexUpdateSet(ents, l - 1)],
     leaf  |-> LeafIndexUpdateSet(ents)]

\* ------------------------------------------------------------ createGrid
\* edgeMap.find(make_pair(v0,v1)), then edgeMap.find(make_pair(v1,v0))
FindEdgeReversedMissing(edgeMap, v0, v1) ==
    IF <<v0, v1>> \in DOMAIN edgeMap THEN edgeMap[<<v0, v1>>] ELSE NULL

FindEdge(edgeMap, v0, v1) ==
    IF <<v0, v1>> \in DOMAIN edgeMap THEN edgeMap[<<v0, v1>>]
    ELSE IF <<v1, v0>> \in DOMAIN edgeMap THEN edgeMap[<<v1, v0>>]
    ELSE NULL

\* as CreateEdgeStep, the element entered only on an edge found in the map
CreateEdgeStepPushOnReuse(g, t, i) ==
    LET v0 == g.elements[t].vertex[subEntity(i, 0)]
        v1 == g.elements[t].vertex[subEntity(i, 1)]
        found == FindEdge(g.edgeMap, v0, v1)
        isNew == found = NULL
        existingEdge == IF isNew THEN Len(g.edges) + 1 ELSE found
        edges1 == IF isNew
                  THEN Append(g.edges, NewEdge(v0, v1, 0, g.counter, NULL))
                  ELSE g.edges
    IN [edges    |-> IF isNew THEN edges1
                     ELSE [edges1 EXCEPT ![existingEdge].elements = Append(@, t)],
        elements |-> [g.elements EXCEPT ![t].edges[i + 1] = existingEdge],
        edgeMap  |-> IF isNew THEN g.edgeMap @@ (<<v0, v1>> :> existingEdge)
                     ELSE g.edgeMap,
        counter  |-> IF isNew THEN g.counter + 1 ELSE g.counter]

\* as CreateEdgeStep, "make element know about the edge" done for a newly
\* inserted edge only
CreateEdgeStepSlotOnNew(g, t, i) ==
    LET v0 == g.elements[t].vertex[subEntity(i, 0)]
        v1 == g.elements[t].vertex[subEntity(i, 1)]
        found == FindEdge(g.edgeMap, v0, v1)
        isNew == found = NULL
        existingEdge == IF isNew THEN Len(g.edges) + 1 ELSE found
        edges1 == IF isNew
                  THEN Append(g.edges, NewEdge(v0, v1, 0, g.counter, NULL))
                  ELSE g.edges
    IN [edges    |-> [edges1 EXCEPT ![existingEdge].elements = Append(@, t)],
        elements |-> IF isNew
                     THEN [g.elements EXCEPT ![t].edges[i + 1] = existingEdge]
                     ELSE g.elements,
        edgeMap  |-> IF isNew THEN g.edgeMap @@ (<<v0, v1>> :> existingEdge)
                     ELSE g.edgeMap,
        counter  |-> IF isNew THEN g.counter + 1 ELSE g.counter]

\* one pass of the body of "Loop over all edges of this element": element t,
\* local edge i, on g = [edges, elements, edgeMap, counter]
CreateEdgeStep(g, t, i) ==
    LET v0 == g.elements[t].vertex[subEntity(i, 0)]
        v1 == g.elements[t].vertex[subEntity(i, 1)]
        found == FindEdge(g.edgeMap, v0, v1)
        isNew == found = NULL
        existingEdge == IF isNew THEN Len(g.edges) + 1 ELSE found
        edges1 == IF isNew
                  THEN Append(g.edges, NewEdge(v0, v1, 0, g.counter, NULL))
                  ELSE g.edges
    IN [edges    |-> [edges1 EXCEPT ![existingEdge].elements = Append(@, t)],
        elements |-> [g.elements EXCEPT ![t].edges[i + 1] = existingEdge],
        edgeMap  |-> IF isNew THEN g.edgeMap @@ (<<v0, v1>> :> existingEdge)
                     ELSE g.edgeMap,
        counter  |-> IF isNew THEN g.counter + 1 ELSE g.counter]

\* the first k passes of the double loop over the elements and their edges
RECURSIVE CreateEdges(_, _)
CreateEdges(g0, k) ==
    IF k = 0 THEN g0
    ELSE CreateEdgeStep(CreateEdges(g0, k - 1), ((k - 1) \div corners) + 1,
                        (k - 1) % corners)

\* "Set the boundary ids": one running counter over the level-0 edge list
SetBoundaryIds(edges) ==
    [j \in 1..Len(edges) |->
        IF edges[j].level = 0
        THEN [edges[j] EXCEPT !.boundaryId = RankAtLevel(edges, j, 0)]
        ELSE edges[j]]

\* "Hand over the new grid": the factory's pointer after the hand-over
HandOverKeepsPointer == "grid"

HandOver == "NULL"

\* createGrid with "Create the index sets" moved before "Create the edges"
createGridIndicesFirst ==
    /\ Len(created) < MaxCreateCalls
    /\ IF grid_ = "NULL"
       THEN /\ created' = Append(created, "NULL")
            /\ UNCHANGED <<entityImps_, freeIdCounter_, grid_, indexSets>>
       ELSE LET indexed == setIndicesEntities(entityImps_)
                g == CreateEdges([edges    |-> indexed.edges,
                                  elements |-> indexed.elements,
                                  edgeMap  |-> <<>>,
                                  counter  |-> freeIdCounter_[1]],
                                 corners * Len(Elements))
            IN /\ entityImps_' = [indexed EXCEPT !.edges = SetBoundaryIds(g.edges),
                                                 !.elements = g.elements]
               /\ freeIdCounter_' = [freeIdCounter_ EXCEPT ![1] = g.counter]
               /\ indexSets' = setIndicesSets(entityImps_)
               /\ grid_' = HandOver
               /\ created' = Append(created, "grid")
    /\ call' = [op |-> "createGrid", onEnd |-> FALSE, outcome |-> "returned"]
    /\ UNCHANGED <<refinements, it, lit, hit>>

createGrid ==
    /\ Len(created) < MaxCreateCalls
    /\ IF grid_ = "NULL"
       THEN /\ created' = Append(created, "NULL")
            /\ UNCHANGED <<entityImps_, freeIdCounter_, grid_, indexSets>>
       ELSE LET g == CreateEdges([edges    |-> Edges,
                                  elements |-> Elements,
                                  edgeMap  |-> <<>>,
                                  counter  |-> freeIdCounter_[1]],
                                 corners * Len(Elements))
                withEdges == [entityImps_ EXCEPT !.edges = g.edges,
                                                 !.elements = g.elements]
                indexed == setIndicesEntities(withEdges)
            IN /\ entityImps_' = [indexed EXCEPT !.edges = SetBoundaryIds(@)]
               /\ freeIdCounter_' = [freeIdCounter_ EXCEPT ![1] = g.counter]
               /\ indexSets' = setIndicesSets(withEdges)
               /\ grid_' = HandOver
               /\ created' = Append(created, "grid")
    /\ call' = [op |-> "createGrid", onEnd |-> FALSE, outcome |-> "returned"]
    /\ UNCHANGED <<refinements, it, lit, hit>>

\* Vertex numbering is immaterial to adjacency: the corner triples whose
\* not yet referenced vertices are the lowest unused indices, in corner order
UsedVertices ==
    Cardinality({Elements[t].vertex[k] : t \in 1..Len(Elements), k \in 1..corners})

FirstUseOrdered(c) ==
    LET m  == UsedVertices
        n1 == IF c[1] = m THEN m + 1 ELSE m
        n2 == IF c[2] = n1 THEN n1 + 1 ELSE n1
    IN c[1] <= m /\ c[2] <= n1 /\ c[3] <= n2

FirstUseOrderedTriples == {c \in NewTriples : FirstUseOrdered(c)}

NextFactory ==
    \/ insertVertex
    \/ \E vertices \in FirstUseOrderedTriples : insertElement("triangle", vertices)
    \/ createGrid

SpecFactory == Init /\ [][NextFactory]_vars

\* ------------------------------------------------------------ refinement
\* the strict descendants of edge d in the refinement tree
RECURSIVE EdgeDescendants(_, _)
EdgeDescendants(edges, d) ==
    IF EdgeIsLeaf(edges[d]) THEN {}
    ELSE {edges[d].sons[1], edges[d].sons[2]}
         \cup EdgeDescendants(edges, edges[d].sons[1])
         \cup EdgeDescendants(edges, edges[d].sons[2])

\* the son of the refined edge d that ends in vertex v
SonAt(edges, d, v) ==
    IF edges[d].vertex[1] = v THEN edges[d].sons[1] ELSE edges[d].sons[2]

\* the midpoint vertex of the refined edge d
Midpoint(edges, d) == edges[edges[d].sons[1]].vertex[2]

\* element t is being refined: local edge i of t is bisected if it is still a
\* leaf (the unrefined neighbours stay incident to the two halves), and t
\* leaves the incidence lists of the finer edges
BisectStep(g, t, i) ==
    LET d == g.elements[t].edges[i + 1]
        l == g.elements[t].level
        m == Len(g.vertices) + 1
        s0 == Len(g.edges) + 1
        s1 == Len(g.edges) + 2
        isCoarseNeighbour(u) == u # t /\ ElementIsLeaf(g.elements[u])
        neighbours == SelectSeq(g.edges[d].elements, isCoarseNeighbour)
        notT(u) == u # t
    IN IF EdgeIsLeaf(g.edges[d])
       THEN [g EXCEPT
               !.vertices = Append(@, NewVertex(l + 1, g.counter[0])),
               !.edges = Append(Append(
                    [@ EXCEPT ![d] = [@ EXCEPT !.sons = <<s0, s1>>, !.nSons = 2]],
                    [NewEdge(g.edges[d].vertex[1], m, l + 1, g.counter[1], d)
                        EXCEPT !.elements = neighbours]),
                    [NewEdge(m, g.edges[d].vertex[2], l + 1, g.counter[1] + 1, d)
                        EXCEPT !.elements = neighbours]),
               !.counter = [@ EXCEPT ![0] = @ + 1, ![1] = @ + 2]]
       ELSE [g EXCEPT
               !.edges = SubSeq([j \in 1..Len(@) |->
                   IF j \in EdgeDescendants(g.edges, d)
                   THEN [@[j] EXCEPT !.elements = SelectSeq(@, notT)]
                   ELSE @[j]], 1, Len(@))]

\* child element c becomes incident to edge s and, as the coarser neighbour,
\* to every finer edge below s
Register(edges, s, c, childFirst) ==
    [j \in 1..Len(edges) |->
        IF j = s
        THEN [edges[j] EXCEPT !.elements =
                 IF childFirst THEN <<c>> \o @ ELSE Append(@, c)]
        ELSE IF j \in EdgeDescendants(edges, s)
        THEN [edges[j] EXCEPT !.elements = Append(@, c)]
        ELSE edges[j]]

\* red refinement of the leaf element t into four children
RefineElement(ents, counter, t, childFirst) ==
    LET g0 == [vertices |-> ents.vertices, edges |-> ents.edges,
               elements |-> ents.elements, counter |-> counter]
        g  == BisectStep(BisectStep(BisectStep(g0, t, 0), t, 1), t, 2)
        T  == g.elements[t]
        l  == T.level
        d0 == T.edges[1]
        d1 == T.edges[2]
        d2 == T.edges[3]
        m0 == Midpoint(g.edges, d0)
        m1 == Midpoint(g.edges, d1)
        m2 == Midpoint(g.edges, d2)
        n  == Len(g.elements)
        c0 == n + 1
        c1 == n + 2
        c2 == n + 3
        c3 == n + 4
        k  == Len(g.edges)
        ie0 == k + 1
        ie1 == k + 2
        ie2 == k + 3
        child(j, vertex, edgs) ==
            [NewElement(l + 1, g.counter[dim] + j, vertex)
                EXCEPT !.edges = edgs, !.father = t]
        inner(j, v, w, a, b) ==
            [NewEdge(v, w, l + 1, g.counter[1] + j, NULL) EXCEPT !.elements = <<a, b>>]
        edges1 == g.edges \o <<inner(0, m0, m1, c0, c3), inner(1, m0, m2, c1, c3),
                               inner(2, m1, m2, c2, c3)>>
        s00 == SonAt(g.edges, d0, T.vertex[1])
        s01 == SonAt(g.edges, d0, T.vertex[2])
        s10 == SonAt(g.edges, d1, T.vertex[1])
        s12 == SonAt(g.edges, d1, T.vertex[3])
        s21 == SonAt(g.edges, d2, T.vertex[2])
        s22 == SonAt(g.edges, d2, T.vertex[3])
        edges2 == Register(Register(Register(Register(Register(Register(edges1,
                      s00, c0, childFirst), s10, c0, childFirst),
                      s01, c1, childFirst), s21, c1, childFirst),
                      s12, c2, childFirst), s22, c2, childFirst)
    IN [ents |-> [vertices |-> g.vertices,
                  edges    |-> edges2,
                  elements |-> [g.elements EXCEPT ![t].sons = <<c0, c1, c2, c3>>]
                      \o <<child(0, <<T.vertex[1], m0, m1>>, <<s00, s10, ie0>>),
                           child(1, <<m0, T.vertex[2], m2>>, <<s01, ie1, s21>>),
                           child(2, <<m1, m2, T.vertex[3]>>, <<ie2, s12, s22>>),
                           child(3, <<m0, m2, m1>>, <<ie1, ie0, ie2>>)>>],
        counter |-> [g.counter EXCEPT ![1] = @ + 3, ![dim] = @ + 4]]

GridCreated == created # <<>> /\ created[1] = "grid"

refine(t, childFirst) ==
    /\ GridCreated
    /\ refinements < MaxRefinements
    /\ NoIterators
    /\ t \in 1..Len(Elements)
    /\ ElementIsLeaf(Elements[t])
    /\ Elements[t].level < MaxLevel
    /\ LET r == RefineElement(entityImps_, freeIdCounter_, t, childFirst)
       IN /\ entityImps_' = r.ents
          /\ freeIdCounter_' = r.counter
    /\ refinements' = refinements + 1
    /\ it' = NoIterator
    /\ call' = [op |-> "refine", onEnd |-> FALSE, outcome |-> "returned"]
    /\ UNCHANGED <<grid_, created, indexSets, lit, hit>>

\* ------------------------------------------- level intersection iterator
\* An iterator is [center, edge, edgeIndex_, neighborIndex_, neighbor_]:
\* edge is the constructor's argument, neighbor_ the offset of the std::vector
\* iterator into center->edges_[edgeIndex_]->elements_ (its size is end()).

\* center_->edges_[edgeIndex_]->elements_
IncidentElements(ents, s) ==
    ents.edges[ents.elements[s.center].edges[s.edgeIndex_ + 1]].elements

\* as SkipOthers, without the comparison of the levels
RECURSIVE SkipOthersAnyLevel(_, _)
SkipOthersAnyLevel(ents, s) ==
    LET els == IncidentElements(ents, s)
    IN IF s.neighbor_ # Len(els) /\ s.center = els[s.neighbor_ + 1]
       THEN SkipOthersAnyLevel(ents,
                [s EXCEPT !.neighborIndex_ = @ + 1, !.neighbor_ = @ + 1])
       ELSE s

\* the inner while loop: neighbor_ and neighborIndex_ step together past the
\* centre itself and past the elements of another level
RECURSIVE SkipOthers(_, _)
SkipOthers(ents, s) ==
    LET els == IncidentElements(ents, s)
    IN IF /\ s.neighbor_ # Len(els)
          /\ \/ s.center = els[s.neighbor_ + 1]
             \/ ents.elements[s.center].level # ents.elements[els[s.neighbor_ + 1]].level
       THEN SkipOthers(ents, [s EXCEPT !.neighborIndex_ = @ + 1, !.neighbor_ = @ + 1])
       ELSE s

\* the check after the search loop without "neighborIndex_=0"
EndCheckKeepsIndex(s) == s

\* "This is the end iterator": the check after the search loop
EndCheck(s) ==
    IF s.edgeIndex_ = corners THEN [s EXCEPT !.neighborIndex_ = 0] ELSE s

\* as ConstructorSearch, every exhausted list taken for a boundary edge
RECURSIVE ConstructorSearchAllBoundary(_, _)
ConstructorSearchAllBoundary(ents, s) ==
    IF s.edgeIndex_ = corners THEN EndCheck(s)
    ELSE LET r   == SkipOthers(ents, [s EXCEPT !.neighbor_ = 0, !.neighborIndex_ = 0])
             els == IncidentElements(ents, s)
         IN IF r.neighbor_ = Len(els)
            THEN [r EXCEPT !.neighborIndex_ = Len(els)]
            ELSE EndCheck(r)

\* the search loop of the constructor
RECURSIVE ConstructorSearch(_, _)
ConstructorSearch(ents, s) ==
    IF s.edgeIndex_ = corners THEN EndCheck(s)
    ELSE LET r   == SkipOthers(ents, [s EXCEPT !.neighbor_ = 0, !.neighborIndex_ = 0])
             els == IncidentElements(ents, s)
         IN IF r.neighbor_ = Len(els)
            THEN IF Len(els) = 1
                 THEN [r EXCEPT !.neighborIndex_ = Len(els)]
                 ELSE ConstructorSearch(ents, [r EXCEPT !.edgeIndex_ = @ + 1])
            ELSE EndCheck(r)

\* FoamGridLevelIntersectionIterator(center, edge)
LevelIntersectionIterator(ents, center, edge) ==
    LET s == [center |-> center, edge |-> edge, edgeIndex_ |-> edge,
              neighborIndex_ |-> 0, neighbor_ |-> Unset]
    IN IF edge = corners THEN s
       ELSE IF Len(IncidentElements(ents, s)) = 1
       THEN [s EXCEPT !.neighborIndex_ = Len(IncidentElements(ents, s))]
       ELSE ConstructorSearch(ents, s)

\* "There is another edge, initialize neighbor_ iterator."
NextEdge(s) ==
    IF s.edgeIndex_ + 1 < corners
    THEN [s EXCEPT !.edgeIndex_ = @ + 1, !.neighbor_ = 0, !.neighborIndex_ = 0]
    ELSE [s EXCEPT !.edgeIndex_ = @ + 1]

\* as IncrementSearch, an exhausted list never taken for a boundary edge
RECURSIVE IncrementSearchNoBoundary(_, _)
IncrementSearchNoBoundary(ents, s) ==
    IF s.edgeIndex_ = corners THEN EndCheck(s)
    ELSE LET r   == SkipOthers(ents, s)
             els == IncidentElements(ents, s)
         IN IF r.neighbor_ = Len(els)
            THEN IncrementSearchNoBoundary(ents, NextEdge(r))
            ELSE EndCheck(r)

\* the search loop of increment
RECURSIVE IncrementSearch(_, _)
IncrementSearch(ents, s) ==
    IF s.edgeIndex_ = corners THEN EndCheck(s)
    ELSE LET r   == SkipOthers(ents, s)
             els == IncidentElements(ents, s)
         IN IF r.neighbor_ = Len(els)
            THEN IF Len(els) = 1
                 THEN [r EXCEPT !.neighborIndex_ = Len(els)]
                 ELSE IncrementSearch(ents, NextEdge(r))
            ELSE EndCheck(r)

\* FoamGridLevelIntersectionIterator::increment
increment(ents, s) ==
    IF s.edgeIndex_ = corners THEN [s EXCEPT !.neighborIndex_ = 0]
    ELSE IF Len(IncidentElements(ents, s)) = 1
    THEN IncrementSearch(ents, NextEdge(s))
    ELSE IncrementSearch(ents, s)

\* FoamGridLevelIntersectionIterator::equals
equals(a, b) ==
    /\ a.center = b.center
    /\ a.edgeIndex_ = b.edgeIndex_
    /\ a.neighborIndex_ = b.neighborIndex_

LevelBegin(center, edge) ==
    /\ GridCreated
    /\ NoIterators
    /\ center \in 1..Len(Elements)
    /\ it' = LevelIntersectionIterator(entityImps_, center, edge)
    /\ call' = [op |-> "LevelIntersectionIterator", onEnd |-> FALSE, outcome |-> "returned"]
    /\ UNCHANGED <<entityImps_, freeIdCounter_, grid_, created, indexSets, refinements,
                   lit, hit>>

LevelIncrement ==
    /\ it.center # NULL
    /\ it' = increment(entityImps_, it)
    /\ call' = [op |-> "LevelIncrement", onEnd |-> (it.edgeIndex_ = corners),
                outcome |-> "returned"]
    /\ UNCHANGED <<entityImps_, freeIdCounter_, grid_, created, indexSets, refinements,
                   lit, hit>>

\* -------------------------------------------- leaf intersection iterator
\* A leaf iterator is [center, edge, edgeIndex_, leafEdges_,
\* topLevelEdgeIter_, leafEdgeIter_, vec, neighbor_, neighborEnd_, status]:
\*   leafEdges_         the std::map from local edge to element vector; its
\*                      keys are 0 .. corners-1 once filled, none when empty
\*   topLevelEdgeIter_  a key of the map, corners for leafEdges_.end(), or
\*                      Unset for the default-constructed (singular) iterator
\*   leafEdgeIter_      an offset into a vector, or Unset when singular
\*   vec, neighbor_     the key of the vector neighbor_ points into and the
\*                      offset in it (the vector's size is its end())
\*   status             "ok", or "undefined" once an operation with
\*                      undefined behaviour has been executed

\* the elements_ of the leaf edges below edge d, sons_[0] before sons_[1]
RECURSIVE traverseAndPushLeafEdges(_, _)
traverseAndPushLeafEdges(edges, d) ==
    IF EdgeIsLeaf(edges[d])
    THEN edges[d].elements
    ELSE traverseAndPushLeafEdges(edges, edges[d].sons[1])
         \o traverseAndPushLeafEdges(edges, edges[d].sons[2])

\* neighbor_ = v.begin(), neighborEnd_ = v.end(), and one step forward when
\* the first entry is the centre
StartOfVector(s, k) ==
    LET v == s.leafEdges_[k]
    IN [s EXCEPT !.vec = k,
                 !.neighbor_ = IF Len(v) > 0 /\ v[1] = s.center THEN 1 ELSE 0,
                 !.neighborEnd_ = Len(v)]

\* FoamGridLeafIntersectionIterator(center, edge)
LeafIntersectionIterator(ents, center, edge) ==
    LET fresh == [center |-> center, edge |-> edge, edgeIndex_ |-> edge,
                  leafEdges_ |-> <<>>, topLevelEdgeIter_ |-> Unset,
                  leafEdgeIter_ |-> Unset, vec |-> Unset, neighbor_ |-> Unset,
                  neighborEnd_ |-> Unset, status |-> "ok"]
        filled == [fresh EXCEPT !.leafEdges_ =
                      [i \in 0..(corners - 1) |->
                          traverseAndPushLeafEdges(ents.edges,
                              ents.elements[center].edges[i + 1])]]
        atEdge == [filled EXCEPT !.vec = edge, !.neighbor_ = 0,
                                 !.neighborEnd_ = Len(filled.leafEdges_[edge])]
    IN IF edge = corners THEN fresh
       ELSE IF Len(ents.edges[ents.elements[center].edges[edge + 1]].elements) = 1
       THEN atEdge
       ELSE StartOfVector([atEdge EXCEPT !.topLevelEdgeIter_ = edge,
                                         !.leafEdgeIter_ = 0], edge)

\* FoamGridLeafIntersectionIterator(center): the one-after-last iterator
LeafEndIterator(center) ==
    [center |-> center, edge |-> corners, edgeIndex_ |-> corners,
     leafEdges_ |-> <<>>, topLevelEdgeIter_ |-> corners,
     leafEdgeIter_ |-> Unset, vec |-> Unset, neighbor_ |-> Unset,
     neighborEnd_ |-> Unset, status |-> "ok"]

\* what an operation with undefined behaviour leaves behind
Undefined(s) == [it |-> [s EXCEPT !.status = "undefined"], outcome |-> "undefined"]

\* DUNE_THROW(InvalidStateException, ...): the iterator is as it was
Throws(s) == [it |-> s, outcome |-> "InvalidStateException"]

Returns(s) == [it |-> s, outcome |-> "returned"]

\* lines 104-127: what follows ++neighbor_
AfterStep(s) ==
    LET top == s.topLevelEdgeIter_
        v   == s.leafEdges_[top]
    IN IF s.neighbor_ # Len(v) THEN Returns(s)
       ELSE IF s.leafEdgeIter_ >= Len(v) THEN Undefined(s)
       ELSE LET l == [s EXCEPT !.leafEdgeIter_ = @ + 1]
            IN IF l.leafEdgeIter_ = Len(v)
               THEN IF top + 1 = corners
                    THEN Returns([l EXCEPT !.topLevelEdgeIter_ = corners])
                    ELSE Returns(StartOfVector(
                             [l EXCEPT !.topLevelEdgeIter_ = top + 1,
                                       !.leafEdgeIter_ = 0], top + 1))
               ELSE Returns(StartOfVector(l, top))

\* FoamGridLeafIntersectionIterator::increment: the set of its outcomes.
\* Comparing the singular topLevelEdgeIter_ with leafEdges_.end() and
\* stepping neighbor_ beyond the end of its vector are undefined: the
\* comparison may come out equal (the throw) or not (the iterator is then
\* dereferenced)
leafIncrement(s) ==
    IF s.status = "undefined" THEN {Undefined(s)}
    ELSE IF s.topLevelEdgeIter_ = Unset THEN {Throws(s), Undefined(s)}
    ELSE IF s.topLevelEdgeIter_ = corners THEN {Throws(s)}
    ELSE IF s.neighbor_ >= Len(s.leafEdges_[s.vec]) THEN {Undefined(s)}
    ELSE {AfterStep([s EXCEPT !.neighbor_ = @ + 1])}

LeafBegin(center, edge) ==
    /\ GridCreated
    /\ NoIterators
    /\ center \in 1..Len(Elements)
    /\ lit' = LeafIntersectionIterator(entityImps_, center, edge)
    /\ call' = [op |-> "LeafIntersectionIterator", onEnd |-> FALSE, outcome |-> "returned"]
    /\ UNCHANGED <<entityImps_, freeIdCounter_, grid_, created, indexSets, refinements,
                   it, hit>>

LeafEnd(center) ==
    /\ GridCreated
    /\ NoIterators
    /\ center \in 1..Len(Elements)
    /\ lit' = LeafEndIterator(center)
    /\ call' = [op |-> "LeafEndIterator", onEnd |-> FALSE, outcome |-> "returned"]
    /\ UNCHANGED <<entityImps_, freeIdCounter_, grid_, created, indexSets, refinements,
                   it, hit>>

LeafIncrement ==
    /\ lit.center # NULL
    /\ \E r \in leafIncrement(lit) :
          /\ lit' = r.it
          /\ call' = [op |-> "LeafIncrement",
                      onEnd |-> (lit.edge = corners \/ lit.topLevelEdgeIter_ = corners),
                      outcome |-> r.outcome]
    /\ UNCHANGED <<entityImps_, freeIdCounter_, grid_, created, indexSets, refinements,
                   it, hit>>

\* ----------------------------------------------------- hierarchic iterator
\* FoamGridHierarchicIterator(maxlevel): a null target and an empty stack;
\* start records the element hbegin was called on
FoamGridHierarchicIterator(start, maxlevel) ==
    [start |-> start, maxlevel_ |-> maxlevel, elemStack |-> <<>>,
     target |-> NULL, visited |-> <<>>, status |-> "ok"]

\* FoamGridEntity<0>::hbegin(maxLevel): the body holds no statement, so the
\* function ends without a return value.  The caller receives either an
\* object that behaves as the constructor leaves one, or one of which
\* nothing is known.
hbegin(start, maxlevel) ==
    {FoamGridHierarchicIterator(start, maxlevel),
     [FoamGridHierarchicIterator(start, maxlevel) EXCEPT !.status = "undefined"]}

\* the sons entered below the elements that wait on the stack
PushSonsBelow(stack, sons) == sons \o stack

\* the loop that pushes sons_[0 .. nSons-1]: the last son ends on top
PushSons(stack, sons) == stack \o sons

\* the target taken from the bottom of the stack
BottomOrNull(stack) == IF stack = <<>> THEN NULL ELSE stack[1]

\* the target after an increment: the top of the stack, or null
TopOrNull(stack) == IF stack = <<>> THEN NULL ELSE stack[Len(stack)]

\* FoamGridHierarchicIterator::increment()
hierIncrement(elements, s) ==
    IF s.status = "undefined" \/ s.elemStack = <<>> THEN s
    ELSE LET old_target == s.elemStack[Len(s.elemStack)]
             popped == SubSeq(s.elemStack, 1, Len(s.elemStack) - 1)
             stack == IF /\ elements[old_target].level < s.maxlevel_
                         /\ ~ElementIsLeaf(elements[old_target])
                      THEN PushSons(popped, elements[old_target].sons)
                      ELSE popped
         IN  [s EXCEPT !.elemStack = stack,
                       !.target = TopOrNull(stack),
                       !.visited = IF TopOrNull(stack) = NULL THEN @
                                   ELSE Append(@, TopOrNull(stack))]

HierBegin(start, maxlevel) ==
    /\ GridCreated
    /\ NoIterators
    /\ start \in 1..Len(Elements)
    /\ hit' \in hbegin(start, maxlevel)
    /\ call' = [op |-> "hbegin", onEnd |-> FALSE, outcome |-> "returned"]
    /\ UNCHANGED <<entityImps_, freeIdCounter_, grid_, created, indexSets, refinements,
                   it, lit>>

HierIncrement ==
    /\ hit.start # NULL
    /\ hit' = hierIncrement(Elements, hit)
    /\ call' = [op |-> "HierIncrement", onEnd |-> (hit.target = NULL),
                outcome |-> "returned"]
    /\ UNCHANGED <<entityImps_, freeIdCounter_, grid_, created, indexSets, refinements,
                   it, lit>>

\* the start of a traversal of the descendants of element start: the sons of
\* start wait on the stack when they are within maxlevel, the target is the
\* top of the stack
HierStart(elements, start, maxlevel) ==
    LET stack == IF /\ elements[start].level < maxlevel
                    /\ ~ElementIsLeaf(elements[start])
                 THEN PushSons(<<>>, elements[start].sons)
                 ELSE <<>>
    IN  [FoamGridHierarchicIterator(start, maxlevel) EXCEPT
            !.elemStack = stack,
            !.target = TopOrNull(stack),
            !.visited = IF TopOrNull(stack) = NULL THEN <<>>
                        ELSE <<TopOrNull(stack)>>]

HierBeginSeeded(start, maxlevel) ==
    /\ GridCreated
    /\ NoIterators
    /\ start \in 1..Len(Elements)
    /\ hit' = HierStart(Elements, start, maxlevel)
    /\ call' = [op |-> "HierStart", onEnd |-> FALSE, outcome |-> "returned"]
    /\ UNCHANGED <<entityImps_, freeIdCounter_, grid_, created, indexSets, refinements,
                   it, lit>>

\* the elements S of the list refined: each gets four sons one level deeper,
\* appended in the order of S
RECURSIVE RefineSet(_, _)
RefineSet(els, S) ==
    IF S = {} THEN els
    ELSE LET t == CHOOSE x \in S : \A y \in S : x <= y
             n == Len(els)
             son(k) == [NewElement(els[t].level + 1, n + k - 1, <<NULL, NULL, NULL>>)
                           EXCEPT !.father = t]
         IN  RefineSet([els EXCEPT ![t].sons = <<n + 1, n + 2, n + 3, n + 4>>]
                           \o <<son(1), son(2), son(3), son(4)>>,
                       S \ {t})

\* the refinement trees below one level-0 element, down to level l
RECURSIVE ElementTrees(_)
ElementTrees(l) ==
    IF l = 0 THEN {<<NewElement(0, 0, <<NULL, NULL, NULL>>)>>}
    ELSE UNION {{RefineSet(els, S) :
                    S \in SUBSET {t \in 1..Len(els) : els[t].level = l - 1}} :
                els \in ElementTrees(l - 1)}

\* a grid that holds one refinement tree of elements
InitElementTree ==
    /\ entityImps_ \in {[vertices |-> <<>>, edges |-> <<>>, elements |-> els] :
                          els \in ElementTrees(MaxTreeLevel)}
    /\ freeIdCounter_ = [d \in 0..dim |-> IF d = dim THEN Len(entityImps_.elements) ELSE 0]
    /\ grid_ = "NULL"
    /\ created = <<"grid">>
    /\ indexSets = [level |-> <<>>, leaf |-> [size_ |-> [d \in 0..dim |-> 0],
                                              myTypes_ |-> [c \in 0..dim |-> <<>>]]]
    /\ refinements = 0
    /\ it = NoIterator
    /\ lit = NoLeafIterator
    /\ hit = NoHierarchicIterator
    /\ call = NoCall

\* ------------------------------------------------- leaf index set update
Aborted == call.outcome = "aborted"

\* FoamGridLeafIndexSet::update(grid) called on the grid as it stands.  A
\* build with assertions ends the process at the first edge that is not a
\* leaf; a build without them (NDEBUG) runs the three loops through.
LeafIndexSetUpdate ==
    /\ NoIterators
    /\ ~Aborted
    /\ \E assertions \in BOOLEAN :
          IF assertions /\ \E d \in 1..Len(Edges) : ~EdgeIsLeaf(Edges[d])
          THEN /\ call' = [op |-> "LeafIndexSet::update", onEnd |-> FALSE,
                           outcome |-> "aborted"]
               /\ UNCHANGED <<entityImps_, indexSets>>
          ELSE /\ entityImps_' = LeafIndexUpdateEntities(entityImps_)
               /\ indexSets' = [indexSets EXCEPT
                                   !.leaf = LeafIndexUpdateSet(entityImps_)]
               /\ call' = [op |-> "LeafIndexSet::update", onEnd |-> FALSE,
                           outcome |-> "returned"]
    /\ UNCHANGED <<freeIdCounter_, grid_, created, refinements, it, lit, hit>>

\* FoamGridLevelIndexSet::update(grid, level) called on the index set of an
\* existing level of the grid as it stands; the set of a level that has
\* none yet is appended
LevelIndexSetUpdate(L) ==
    /\ NoIterators
    /\ ~Aborted
    /\ L \in 0..maxLevel(entityImps_)
    /\ L <= Len(indexSets.level)
    /\ entityImps_' = LevelIndexUpdateEntities(entityImps_, L)
    /\ indexSets' = [indexSets EXCEPT
          !.level = IF L < Len(@)
                    THEN [@ EXCEPT ![L + 1] = LevelIndexUpdateSet(entityImps_, L)]
                    ELSE Append(SubSeq(@, 1, Len(@)),
                                LevelIndexUpdateSet(entityImps_, L))]
    /\ call' = [op |-> "LevelIndexSet::update", onEnd |-> FALSE,
                outcome |-> "returned", level |-> L]
    /\ UNCHANGED <<freeIdCounter_, grid_, created, refinements, it, lit, hit>>

\* FoamGridGlobalIdSet::update() and FoamGridLocalIdSet::update(): empty bodies
IdSetUpdate ==
    /\ NoIterators
    /\ ~Aborted
    /\ call' = [op |-> "IdSet::update", onEnd |-> FALSE, outcome |-> "returned"]
    /\ UNCHANGED <<entityImps_, freeIdCounter_, grid_, created, indexSets,
                   refinements, it, lit, hit>>

\* vertex lists with successor links: a successor lies one level deeper and
\* succeeds one vertex only
VertexLists ==
    UNION {
      {[j \in 1..n |-> [NewVertex(c[1][j], j - 1) EXCEPT !.son = c[2][j]]] :
         c \in {x \in [1..n -> 0..MaxPassLevel] \X [1..n -> 0..n] :
                  /\ \A j \in 1..n :
                        x[2][j] # NULL => x[1][x[2][j]] = x[1][j] + 1
                  /\ \A j, k \in 1..n :
                        (x[2][j] # NULL /\ x[2][j] = x[2][k]) => j = k}}
      : n \in 1..MaxPassVertices}

\* a grid that holds the vertices vs, before its leaf index pass
InitVertexPass ==
    /\ entityImps_ \in {[vertices |-> vs, edges |-> <<>>, elements |-> <<>>] :
                          vs \in VertexLists}
    /\ freeIdCounter_ = [d \in 0..dim |-> IF d = 0 THEN Len(entityImps_.vertices) ELSE 0]
    /\ grid_ = "grid"
    /\ created = <<"grid">>
    /\ indexSets = [level |-> <<>>, leaf |-> [size_ |-> [d \in 0..dim |-> 0],
                                              myTypes_ |-> [c \in 0..dim |-> <<>>]]]
    /\ refinements = 0
    /\ it = NoIterator
    /\ lit = NoLeafIterator
    /\ hit = NoHierarchicIterator
    /\ call = NoCall

\* ------------------------------------------------- sub-entity queries
\* an int passed for an unsigned int parameter: a negative value arrives as
\* a value near the top of the range (shown within the integers at hand)
AsUnsigned(c) == IF c < 0 THEN 2147483647 + c + 1 ELSE c

Value(v) == [outcome |-> "returned", value |-> v]

GridError == [outcome |-> "GridError", value |-> Unset]

AssertionFailed == [outcome |-> "aborted", value |-> Unset]

\* FoamGridEntity<0>::subLevelIndex, subLeafIndex and subId (field names the
\* member read: levelIndex, leafIndex or id) of element t, in a build with
\* or without assertions
ElementSub(ents, t, i, codim, field, assertions) ==
    LET c == AsUnsigned(codim)
    IN IF assertions /\ ~(0 <= c /\ c <= dim) THEN AssertionFailed
       ELSE CASE c = 0 -> Value(ents.elements[t][field])
              [] c = 1 -> Value(ents.edges[ents.elements[t].edges[i + 1]][field])
              [] c = 2 -> Value(ents.vertices[ents.elements[t].vertex[i + 1]][field])
              [] OTHER -> GridError

\* FoamGridEntityImp<1>::subLevelIndex and subLeafIndex of edge d
EdgeSub(ents, d, i, codim, field, assertions) ==
    LET c == AsUnsigned(codim)
    IN IF assertions /\ ~(1 <= c /\ c <= 2) THEN AssertionFailed
       ELSE CASE c = 1 -> Value(ents.edges[d][field])
              [] c = 2 -> Value(ents.vertices[ents.edges[d].vertex[i + 1]][field])
              [] OTHER -> GridError

\* the name of the function that reads a member
SubOp(field) ==
    CASE field = "levelIndex" -> "subLevelIndex"
      [] field = "leafIndex"  -> "subLeafIndex"
      [] OTHER                -> "subId"

\* the codimensions a caller passes
Codims == -1..(dim + 1)

ElementSubQuery(t, i, codim, field) ==
    /\ GridCreated
    /\ ~Aborted
    /\ t \in 1..Len(Elements)
    /\ \E assertions \in BOOLEAN :
          LET r == ElementSub(entityImps_, t, i, codim, field, assertions)
          IN call' = [op |-> SubOp(field), onEnd |-> FALSE, outcome |-> r.outcome,
                      kind |-> "element", codim |-> codim, value |-> r.value]
    /\ UNCHANGED <<entityImps_, freeIdCounter_, grid_, created, indexSets,
                   refinements, it, lit, hit>>

EdgeSubQuery(d, i, codim, field) ==
    /\ GridCreated
    /\ ~Aborted
    /\ d \in 1..Len(Edges)
    /\ \E assertions \in BOOLEAN :
          LET r == EdgeSub(entityImps_, d, i, codim, field, assertions)
          IN call' = [op |-> SubOp(field), onEnd |-> FALSE, outcome |-> r.outcome,
                      kind |-> "edge", codim |-> codim, value |-> r.value]
    /\ UNCHANGED <<entityImps_, freeIdCounter_, grid_, created, indexSets,
                   refinements, it, lit, hit>>

\* ------------------------------------------------------- specifications
\* the coarse grid: the factory, fed any triangles, and the level
\* intersection iterator
NextCoarse ==
    \/ insertVertex
    \/ \E vertices \in FirstUseOrderedTriples : insertElement("triangle", vertices)
    \/ createGrid
    \/ \E center \in 1..Len(Elements), edge \in 0..corners : LevelBegin(center, edge)
    \/ LevelIncrement

SpecCoarse == Init /\ [][NextCoarse]_vars

\* the coarse grid and the leaf intersection iterator
NextCoarseLeaf ==
    \/ insertVertex
    \/ \E vertices \in FirstUseOrderedTriples : insertElement("triangle", vertices)
    \/ createGrid
    \/ \E center \in 1..Len(Elements), edge \in 0..corners : LeafBegin(center, edge)
    \/ \E center \in 1..Len(Elements) : LeafEnd(center)
    \/ LeafIncrement

SpecCoarseLeaf == Init /\ [][NextCoarseLeaf]_vars

\* triangles on the common side of the vertices 0 and 1
FanTriples == {c \in FirstUseOrderedTriples : {0, 1} \subseteq {c[1], c[2], c[3]}}

\* the refined grid: the factory, fed a fan of triangles around one shared
\* side, refinement and the level intersection iterator
Next ==
    \/ insertVertex
    \/ \E vertices \in FanTriples : insertElement("triangle", vertices)
    \/ createGrid
    \/ \E t \in 1..Len(Elements), childFirst \in BOOLEAN : refine(t, childFirst)
    \/ \E center \in 1..Len(Elements), edge \in 0..corners : LevelBegin(center, edge)
    \/ LevelIncrement

Spec == Init /\ [][Next]_vars

\* the refined grid and the leaf intersection iterator
NextLeaf ==
    \/ insertVertex
    \/ \E vertices \in FanTriples : insertElement("triangle", vertices)
    \/ createGrid
    \/ \E t \in 1..Len(Elements), childFirst \in BOOLEAN : refine(t, childFirst)
    \/ \E center \in 1..Len(Elements), edge \in 0..corners : LeafBegin(center, edge)
    \/ \E center \in 1..Len(Elements) : LeafEnd(center)
    \/ LeafIncrement

SpecLeaf == Init /\ [][NextLeaf]_vars

\* the refined grid and the hierarchic iterator
NextHier ==
    \/ insertVertex
    \/ \E vertices \in FanTriples : insertElement("triangle", vertices)
    \/ createGrid
    \/ \E t \in 1..Len(Elements), childFirst \in BOOLEAN : refine(t, childFirst)
    \/ \E start \in 1..Len(Elements), maxlevel \in 0..MaxLevel :
          HierBegin(start, maxlevel)
    \/ HierIncrement

SpecHier == Init /\ [][NextHier]_vars

\* a refinement tree and the hierarchic traversal of the descendants of one
\* of its elements
NextHierTree ==
    \/ \E start \in 1..Len(Elements), maxlevel \in 0..MaxTreeLevel :
          HierBeginSeeded(start, maxlevel)
    \/ HierIncrement

SpecHierTree == InitElementTree /\ [][NextHierTree]_vars

\* the refined grid and the leaf index pass
NextIndex ==
    \/ ~Aborted /\ insertVertex
    \/ ~Aborted /\ \E vertices \in FanTriples : insertElement("triangle", vertices)
    \/ ~Aborted /\ createGrid
    \/ ~Aborted /\ \E t \in 1..Len(Elements), childFirst \in BOOLEAN :
                       refine(t, childFirst)
    \/ GridCreated /\ LeafIndexSetUpdate
    \/ GridCreated /\ \E L \in 0..MaxLevel : LevelIndexSetUpdate(L)
    \/ GridCreated /\ IdSetUpdate

SpecIndex == Init /\ [][NextIndex]_vars

\* the leaf index pass applied to vertex lists with successor links
NextVertexPass == LeafIndexSetUpdate

SpecVertexPass == InitVertexPass /\ [][NextVertexPass]_vars

\* the coarse grid, fed a fan of triangles around one shared side, and the
\* sub-entity queries
NextQuery ==
    \/ ~Aborted /\ insertVertex
    \/ ~Aborted /\ \E vertices \in FanTriples : insertElement("triangle", vertices)
    \/ ~Aborted /\ createGrid
    \/ \E t \in 1..Len(Elements), i \in 0..(corners - 1), codim \in Codims,
          field \in {"levelIndex", "leafIndex", "id"} :
          ElementSubQuery(t, i, codim, field)
    \/ \E d \in 1..Len(Edges), i \in 0..1, codim \in Codims,
          field \in {"levelIndex", "leafIndex"} :
          EdgeSubQuery(d, i, codim, field)

SpecQuery == Init /\ [][NextQuery]_vars

\* the geometry types a caller passes to insertElement; of the corner list
\* of a quadrilateral the first three entries are read
ElementTypes == {"triangle", "quadrilateral"}

\* the factory, fed elements of any type
NextFactoryTypes ==
    \/ ~Aborted /\ insertVertex
    \/ ~Aborted /\ \E type \in ElementTypes, vertices \in FirstUseOrderedTriples :
                       insertElement(type, vertices)
    \/ ~Aborted /\ createGrid

SpecFactoryTypes == Init /\ [][NextFactoryTypes]_vars

\* --------------------------------------------------- observation helpers
Level0Edges == {d \in 1..Len(Edges) : Edges[d].level = 0}

Level0Elements == {t \in 1..Len(Elements) : Elements[t].level = 0}

\* the unordered vertex pair of local edge i (0, 1, 2) of element t
SidePair(t, i) ==
    {Elements[t].vertex[subEntity(i, 0)], Elements[t].vertex[subEntity(i, 1)]}

EdgePair(d) == {Edges[d].vertex[1], Edges[d].vertex[2]}

IncidenceCount(t, i) == Len(Edges[Elements[t].edges[i + 1]].elements)

Live(s) == s.center # NULL /\ s.edgeIndex_ < corners

AtEnd(s) == s.center # NULL /\ s.edgeIndex_ = corners

\* "This is a boundary intersection"
BoundaryIntersection(s) ==
    Live(s) /\ Len(IncidentElements(entityImps_, s)) = 1

\* "intersection with another element found!"
NeighborIntersection(s) ==
    /\ Live(s)
    /\ Len(IncidentElements(entityImps_, s)) > 1
    /\ s.neighbor_ >= 0
    /\ s.neighbor_ < Len(IncidentElements(entityImps_, s))

Outside(s) == IncidentElements(entityImps_, s)[s.neighbor_ + 1]

\* u is a same-level partner of element t
Partner(t, u) == u # t /\ Elements[u].level = Elements[t].level

\* local edge i of t is shared, but with no element of t's level
NonConformingSlot(t, i) ==
    /\ IncidenceCount(t, i) > 1
    /\ LET els == Edges[Elements[t].edges[i + 1]].elements
       IN \A k \in 1..Len(els) : ~Partner(t, els[k])

\* more (edge, neighbour) positions than element t has
RunBound(t) ==
    corners + IncidenceCount(t, 0) + IncidenceCount(t, 1) + IncidenceCount(t, 2) + 1

\* the live states visited from s by at most k increments
RECURSIVE LevelRun(_, _)
LevelRun(s, k) ==
    IF s.edgeIndex_ = corners \/ k = 0 THEN <<>>
    ELSE <<s>> \o LevelRun(increment(entityImps_, s), k - 1)

\* the state after k increments of s
RECURSIVE After(_, _)
After(s, k) == IF k = 0 THEN s ELSE After(increment(entityImps_, s), k - 1)

\* the live states an iterator of element t can be in, whatever edge it is
\* constructed at
Reported(t) ==
    UNION {LET run == LevelRun(LevelIntersectionIterator(entityImps_, t, e), RunBound(t))
           IN {run[k] : k \in 1..Len(run)} : e \in 0..(corners - 1)}

LexLess(a, b) == a[1] < b[1] \/ (a[1] = b[1] /\ a[2] < b[2])

\* ----------------------------------------- leaf iterator observations
\* the iterator stands on an intersection
LeafLive(s) ==
    /\ s.center # NULL
    /\ s.status = "ok"
    /\ s.edge # corners
    /\ s.topLevelEdgeIter_ # corners

\* the local edge the iterator stands on
LeafSlot(s) == IF s.topLevelEdgeIter_ = Unset THEN s.edgeIndex_ ELSE s.topLevelEdgeIter_

\* neighbor_ != neighborEnd_
LeafHasNeighbor(s) == s.neighbor_ < s.neighborEnd_

\* *neighbor_
LeafOutside(s) == s.leafEdges_[s.vec][s.neighbor_ + 1]

\* the increment returns normally, whatever the build
StepDefined(s) ==
    \A r \in leafIncrement(s) : r.outcome = "returned"

LeafStep(s) == (CHOOSE r \in leafIncrement(s) : TRUE).it

\* more increments than a run from s can take
LeafRunBound(s) ==
    LET n(k) == Len(s.leafEdges_[k])
    IN corners + n(0) * n(0) + n(1) * n(1) + n(2) * n(2) + 1

\* the live states from s on, as long as the increment is defined
RECURSIVE LeafRun(_, _)
LeafRun(s, k) ==
    IF ~LeafLive(s) \/ k = 0 THEN <<>>
    ELSE IF ~StepDefined(s) THEN <<s>>
    ELSE <<s>> \o LeafRun(LeafStep(s), k - 1)

\* the state in which the run from s stops: the end, or a live state whose
\* increment is not defined
RECURSIVE LeafRunLast(_, _)
LeafRunLast(s, k) ==
    IF ~LeafLive(s) \/ k = 0 \/ ~StepDefined(s) THEN s
    ELSE LeafRunLast(LeafStep(s), k - 1)

\* the enumeration of element t: from the begin iterator to the end
LeafEnumeration(t) ==
    LET begin == LeafIntersectionIterator(entityImps_, t, 0)
    IN LeafRun(begin, LeafRunBound(begin))

\* the outside elements the iterator constructed at slot e of t reports
\* while it stands on slot e
LeafSlotReports(t, e) ==
    LET begin == LeafIntersectionIterator(entityImps_, t, e)
        run   == LeafRun(begin, LeafRunBound(begin))
        here(s) == LeafSlot(s) = e /\ LeafHasNeighbor(s)
        picked == SelectSeq(run, here)
    IN [k \in 1..Len(picked) |-> LeafOutside(picked[k])]

\* the leaf edges below edge d, sons_[0] before sons_[1]
RECURSIVE LeafDescendants(_, _)
LeafDescendants(edges, d) ==
    IF EdgeIsLeaf(edges[d]) THEN <<d>>
    ELSE LeafDescendants(edges, edges[d].sons[1])
         \o LeafDescendants(edges, edges[d].sons[2])

\* slot e of the leaf element t is refined on the other side: each leaf edge
\* below it is bordered by t and by exactly one finer element, all distinct
FinerAcross(t, e) ==
    LET ds == LeafDescendants(Edges, Elements[t].edges[e + 1])
        other(k) == CHOOSE u \in 1..Len(Elements) :
                       \E j \in 1..Len(Edges[ds[k]].elements) :
                           Edges[ds[k]].elements[j] = u /\ u # t
    IN [k \in 1..Len(ds) |-> other(k)]

NonConformingLeafSlot(t, e) ==
    LET ds == LeafDescendants(Edges, Elements[t].edges[e + 1])
        others(k) == {Edges[ds[k]].elements[j] : j \in 1..Len(Edges[ds[k]].elements)}
                         \ {t}
    IN /\ ElementIsLeaf(Elements[t])
       /\ Len(ds) > 1
       /\ \A k \in 1..Len(ds) :
             /\ Cardinality(others(k)) = 1
             /\ \A u \in others(k) : Elements[u].level > Elements[t].level
                                        /\ ElementIsLeaf(Elements[u])
       /\ \A k, l \in 1..Len(ds) : k # l => others(k) # others(l)

\* boundary(): the edge of the slot has one incident element
LeafBoundary(s) ==
    Len(Edges[Elements[s.center].edges[LeafSlot(s) + 1]].elements) = 1

\* C11 as stated: across a slot refined on the other side into k leaf edges
\* with k distinct finer elements, the leaf enumeration of the coarse element
\* yields exactly these k elements, each once, in leaf-descendant order.
C11_NonConformingLeafCompleteness ==
    GridCreated =>
        \A t \in 1..Len(Elements) : \A e \in 0..(corners - 1) :
            NonConformingLeafSlot(t, e) =>
                LeafSlotReports(t, e) = FinerAcross(t, e)

\* ------------------------------------------------------------- the claims

C2_EdgesByUnorderedPair ==
    GridCreated =>
        /\ \A d, e \in Level0Edges : EdgePair(d) = EdgePair(e) => d = e
        /\ \A t, u \in Level0Elements : \A i, j \in 0..(corners - 1) :
               SidePair(t, i) = SidePair(u, j) =>
                   /\ Elements[t].edges[i + 1] = Elements[u].edges[j + 1]
                   /\ Elements[t].edges[i + 1] # NULL
                   /\ EdgePair(Elements[t].edges[i + 1]) = SidePair(t, i)

C2_Witness ==
    GridCreated /\ \E t, u \in Level0Elements : \E i, j \in 0..(corners - 1) :
        /\ t # u
        /\ Elements[t].vertex[subEntity(i, 0)] = Elements[u].vertex[subEntity(j, 1)]
        /\ Elements[t].vertex[subEntity(i, 1)] = Elements[u].vertex[subEntity(j, 0)]
        /\ Elements[t].edges[i + 1] = Elements[u].edges[j + 1]

\* C3 as stated: the k-th boundary edge (incidence count 1) in creation order
\* carries boundary id k.
C3_BoundaryIdsCountBoundaryEdges ==
    GridCreated =>
        \A d \in Level0Edges :
            Len(Edges[d].elements) = 1 =>
                Edges[d].boundaryId =
                    Cardinality({e \in Level0Edges :
                        e < d /\ Len(Edges[e].elements) = 1})

\* C4: the first createGrid call returns the grid and nulls the factory's
\* pointer; every later call returns NULL and leaves the grid as it was.
C4_CreateGridOnce ==
    [][Len(created') > Len(created) =>
         IF created = <<>>
         THEN created' = <<"grid">> /\ grid_' = "NULL"
         ELSE /\ created'[Len(created')] = "NULL"
              /\ grid_' = "NULL"
              /\ entityImps_' = entityImps_
              /\ freeIdCounter_' = freeIdCounter_
              /\ indexSets' = indexSets]_vars

C4_Witness ==
    created = <<"grid", "NULL">> /\ Len(Edges) > 0

AllBoundary(t) == \A i \in 0..(corners - 1) : IncidenceCount(t, i) = 1

\* C5: for an element whose three edges have incidence count 1, the level
\* enumeration from local edge 0 yields exactly three intersections, on the
\* local edges 0, 1, 2 in this order, each a boundary intersection without
\* neighbour, and the third increment gives the end state.
C5_ThreeBoundaryIntersections ==
    GridCreated =>
        \A t \in 1..Len(Elements) :
            AllBoundary(t) =>
                LET begin == LevelIntersectionIterator(entityImps_, t, 0)
                    run   == LevelRun(begin, RunBound(t))
                IN /\ Len(run) = corners
                   /\ \A k \in 1..corners :
                         /\ run[k] = After(begin, k - 1)
                         /\ run[k].edgeIndex_ = k - 1
                         /\ BoundaryIntersection(run[k])
                         /\ ~NeighborIntersection(run[k])
                   /\ AtEnd(After(begin, corners))
                   /\ After(begin, corners).neighborIndex_ = 0

C5_Witness ==
    /\ AtEnd(it)
    /\ it.edge = 0
    /\ AllBoundary(it.center)

\* C6: a live non-boundary state has as its neighbour a member of the centre's
\* edge's incidence list that is not the centre and is of the centre's level;
\* a fresh iterator that finds a match on its own edge stands on the first
\* such element of the list.
C6_NeighborIsSameLevelOther ==
    /\ NeighborIntersection(it) =>
          /\ it.neighborIndex_ = it.neighbor_
          /\ Partner(it.center, Outside(it))
    /\ GridCreated =>
          \A t \in 1..Len(Elements) : \A e \in 0..(corners - 1) :
              LET s == LevelIntersectionIterator(entityImps_, t, e)
              IN (NeighborIntersection(s) /\ s.edgeIndex_ = e) =>
                    /\ Partner(t, Outside(s))
                    /\ \A k \in 1..s.neighbor_ :
                          ~Partner(t, IncidentElements(entityImps_, s)[k])

C6_Witness ==
    /\ NeighborIntersection(it)
    /\ it.neighbor_ >= 1
    /\ Elements[IncidentElements(entityImps_, it)[1]].level # Elements[it.center].level

\* C7 as stated: incrementing an iterator that stands on a same-level
\* neighbour moves (edgeIndex, neighborIndex) strictly forward.
C7_IncrementMovesForward ==
    NeighborIntersection(it) =>
        LET next == increment(entityImps_, it)
        IN LexLess(<<it.edgeIndex_, it.neighborIndex_>>,
                   <<next.edgeIndex_, next.neighborIndex_>>)

\* C8 as stated: from the iterator constructed at local edge 0 of any element,
\* repeated increments reach the end state.
C8_EnumerationReachesEnd ==
    GridCreated =>
        \A t \in 1..Len(Elements) :
            AtEnd(After(LevelIntersectionIterator(entityImps_, t, 0), RunBound(t)))

\* C9: a local edge that is shared, but with no other element of the centre's
\* level, yields no intersection: no live state stands on it, and an iterator
\* constructed at it starts on a later edge or at the end.
C9_NonConformingEdgeSkipped ==
    /\ Live(it) => ~NonConformingSlot(it.center, it.edgeIndex_)
    /\ GridCreated =>
          \A t \in 1..Len(Elements) : \A e \in 0..(corners - 1) :
              NonConformingSlot(t, e) =>
                  LevelIntersectionIterator(entityImps_, t, e).edgeIndex_ > e

C9_Witness ==
    /\ it.center # NULL
    /\ it.edge < corners
    /\ NonConformingSlot(it.center, it.edge)
    /\ it.edgeIndex_ > it.edge

\* C10 as stated: if a level intersection of A on local edge i has neighbour
\* B, some level intersection of B has neighbour A on the same edge entity.
C10_ConformingSymmetry ==
    GridCreated =>
        \A A \in 1..Len(Elements) : \A s \in Reported(A) :
            NeighborIntersection(s) =>
                \E r \in Reported(Outside(s)) :
                    /\ NeighborIntersection(r)
                    /\ Outside(r) = A
                    /\ Elements[A].edges[s.edgeIndex_ + 1]
                           = Elements[Outside(s)].edges[r.edgeIndex_ + 1]

\* C12 as stated: no intersection of the leaf enumeration of an element,
\* from construction at any edge through every increment, has the element
\* itself as its outside neighbour.
C12_LeafNeverReportsCenter ==
    (LeafLive(lit) /\ ~LeafBoundary(lit) /\ LeafHasNeighbor(lit)) =>
        LeafOutside(lit) # lit.center

\* the elements reported as outside neighbour by the leaf enumeration of t
LeafReported(t) ==
    LET run == LeafEnumeration(t)
    IN {LeafOutside(run[k]) :
            k \in {j \in 1..Len(run) : ~LeafBoundary(run[j]) /\ LeafHasNeighbor(run[j])}}

\* C13 as stated: when a coarse leaf element borders k finer leaf elements
\* along the leaf descendants of one of its edges, the leaf enumeration of
\* each of them contains an intersection whose outside neighbour is the
\* coarse element.
C13_LeafReciprocity ==
    GridCreated =>
        \A t \in 1..Len(Elements) : \A e \in 0..(corners - 1) :
            NonConformingLeafSlot(t, e) =>
                LET F == FinerAcross(t, e)
                IN \A k \in 1..Len(F) : t \in LeafReported(F[k])

\* C14 as stated: for a local edge e with incidence count 1 the leaf
\* enumeration produces exactly one intersection, a boundary intersection
\* without outside element (its current neighbour is not the element
\* itself), whether the iterator is constructed at e or reaches e by
\* increments from an earlier edge.
C14_LeafBoundaryOnce ==
    GridCreated =>
        \A t \in 1..Len(Elements) : \A e \in 0..(corners - 1) :
            IncidenceCount(t, e) = 1 =>
                \A from \in 0..e :
                    LET begin == LeafIntersectionIterator(entityImps_, t, from)
                        run   == LeafRun(begin, LeafRunBound(begin))
                        at    == {k \in 1..Len(run) : LeafSlot(run[k]) = e}
                    IN /\ ~LeafLive(LeafRunLast(begin, LeafRunBound(begin)))
                       /\ Cardinality(at) = 1
                       /\ \A k \in at : LeafBoundary(run[k]) /\ ~LeafHasNeighbor(run[k])

\* C15 as stated: incrementing a level intersection iterator that is in the
\* end state is signalled as an invalid-iterator-state error.
C15_LevelEndIncrementSignalled ==
    (call.op = "LevelIncrement" /\ call.onEnd) =>
        call.outcome = "InvalidStateException"

\* C16 as stated: incrementing a one-past-the-end leaf intersection iterator
\* raises InvalidStateException and leaves the iterator as it was, for the
\* end iterator of the one-argument constructor, for the one constructed
\* with edge = corners, and for the end state reached by increments.
C16_LeafEndIncrementThrows ==
    (call.op = "LeafIncrement" /\ call.onEnd) =>
        /\ call.outcome = "InvalidStateException"
        /\ lit.status = "ok"

\* the elements obtained from element t by refinement, t excluded
RECURSIVE ElementDescendants(_, _)
ElementDescendants(elements, t) ==
    LET sons == {elements[t].sons[k] : k \in 1..Len(elements[t].sons)}
    IN  sons \cup UNION {ElementDescendants(elements, c) : c \in sons}

\* C17: a hierarchic traversal that began at element E with maximum level L
\* and has come to its end (null target) is a defined traversal with an
\* empty stack that has visited every strict descendant of E of level at
\* most L exactly once and nothing else.
C17_HierarchicVisitsDescendants ==
    (hit.start # NULL /\ hit.target = NULL) =>
        /\ hit.status = "ok"
        /\ hit.elemStack = <<>>
        /\ {hit.visited[k] : k \in 1..Len(hit.visited)}
              = {c \in ElementDescendants(Elements, hit.start) :
                    Elements[c].level <= hit.maxlevel_}
        /\ \A j, k \in 1..Len(hit.visited) :
              hit.visited[j] = hit.visited[k] => j = k

\* the state is the one a completed leaf index pass leaves behind
LeafPassDone ==
    /\ call.op = "LeafIndexSet::update"
    /\ call.outcome = "returned"
    /\ entityImps_ = LeafIndexUpdateEntities(entityImps_)

\* the leaf entities of a codimension, as positions in their list
LeafEntities(codim) ==
    CASE codim = 0 -> {j \in 1..Len(Elements) : ElementIsLeaf(Elements[j])}
      [] codim = 1 -> {j \in 1..Len(Edges) : EdgeIsLeaf(Edges[j])}
      [] OTHER     -> {j \in 1..Len(Vertices) : VertexIsLeaf(Vertices[j])}

LeafIndexOf(codim, j) ==
    CASE codim = 0 -> Elements[j].leafIndex
      [] codim = 1 -> Edges[j].leafIndex
      [] OTHER     -> Vertices[j].leafIndex

\* size(codim) reading size_ at the codimension instead of the dimension
LeafSizeByDimension(codim) ==
    IF codim < 0 \/ codim > dim THEN 0 ELSE indexSets.leaf.size_[codim]

\* FoamGridLeafIndexSet::size(codim)
LeafSize(codim) ==
    IF codim < 0 \/ codim > dim THEN 0 ELSE indexSets.leaf.size_[dim - codim]

\* C18: after a leaf index pass, for each codimension the leaf indices of
\* the leaf entities are pairwise distinct and are exactly 0 .. n-1, n being
\* the number of leaf entities of the codimension and the value of
\* size(codim).
C18_LeafIndexContiguity ==
    LeafPassDone =>
        \A codim \in 0..dim :
            LET n == Cardinality(LeafEntities(codim))
            IN  /\ \A j, k \in LeafEntities(codim) :
                      LeafIndexOf(codim, j) = LeafIndexOf(codim, k) => j = k
                /\ {LeafIndexOf(codim, j) : j \in LeafEntities(codim)} = 0..(n - 1)
                /\ LeafSize(codim) = n

\* C19: a leaf index pass on a mesh with edges that are not leaves runs to
\* completion, counts the leaf edges only, and numbers them deepest level
\* first in list order.
C19_OnlyLeafEdgesNumbered ==
    call.op = "LeafIndexSet::update" =>
        /\ call.outcome = "returned"
        /\ LeafPassDone =>
              /\ indexSets.leaf.size_[1] = Cardinality(LeafEntities(1))
              /\ \A d \in LeafEntities(1) :
                    Edges[d].leafIndex
                       = Cardinality({k \in LeafEntities(1) :
                                         DescendingBefore(Edges, k, d)})

\* the leaf vertex reached from vertex i along the successor links
RECURSIVE LeafSuccessor(_, _)
LeafSuccessor(vs, i) ==
    IF VertexIsLeaf(vs[i]) THEN i ELSE LeafSuccessor(vs, vs[i].son)

\* C20: after a leaf index pass every vertex holds the leaf index of its
\* leaf successor, and that index is one the pass has assigned (one of
\* 0 .. number of leaf vertices - 1), not a value from before the pass.
C20_VertexInheritsSuccessorIndex ==
    (call.op = "LeafIndexSet::update" /\ call.outcome = "returned") =>
        \A v \in 1..Len(Vertices) :
            /\ Vertices[v].leafIndex
                  = Vertices[LeafSuccessor(Vertices, v)].leafIndex
            /\ Vertices[v].leafIndex \in 0..(Cardinality(LeafEntities(2)) - 1)

\* a pass has numbered a vertex whose successor, listed after it, has a
\* successor of its own
C20_Witness ==
    /\ call.op = "LeafIndexSet::update"
    /\ call.outcome = "returned"
    /\ \E v \in 1..Len(Vertices) :
          /\ ~VertexIsLeaf(Vertices[v])
          /\ Vertices[v].son > v
          /\ ~VertexIsLeaf(Vertices[Vertices[v].son])
          /\ Vertices[v].leafIndex >= 0

\* the positions of the entries of level L in list s, in list order
AtLevel(s, L) == {j \in 1..Len(s) : s[j].level = L}

\* the last operation was the level index pass of level L
LevelPassDone(L) ==
    /\ call.op = "LevelIndexSet::update"
    /\ call.outcome = "returned"
    /\ call.level = L

\* C21: after the level index pass of level L the k-th element of the
\* level-L container has levelIndex k (k = 0, 1, ...), and so has the k-th
\* vertex of the level-L container.
C21_LevelIndexInContainerOrder ==
    \A L \in 0..MaxLevel :
        LevelPassDone(L) =>
            /\ \A j \in AtLevel(Elements, L) :
                  Elements[j].levelIndex
                     = Cardinality({k \in AtLevel(Elements, L) : k < j})
            /\ \A j \in AtLevel(Vertices, L) :
                  Vertices[j].levelIndex
                     = Cardinality({k \in AtLevel(Vertices, L) : k < j})

\* the pass of level 1 has numbered at least four elements and two vertices
\* of a refined grid
C21_Witness ==
    /\ LevelPassDone(1)
    /\ Cardinality(AtLevel(Elements, 1)) >= 4
    /\ Cardinality(AtLevel(Vertices, 1)) >= 2
    /\ \E j \in AtLevel(Elements, 1) : Elements[j].levelIndex = 3

\* the last operation was a leaf index pass that ran through
LeafPassReturned ==
    /\ call.op = "LeafIndexSet::update"
    /\ call.outcome = "returned"

\* C22: a level index pass or a leaf index pass run once more on the state
\* the same pass has left behind changes no levelIndex, no leafIndex, no
\* size and no geometry-type list.
C22_IndexPassesIdempotent ==
    /\ \A L \in 0..MaxLevel :
          LevelPassDone(L) =>
              /\ LevelIndexUpdateEntities(entityImps_, L) = entityImps_
              /\ LevelIndexUpdateSet(entityImps_, L) = indexSets.level[L + 1]
    /\ LeafPassReturned =>
          /\ LeafIndexUpdateEntities(entityImps_) = entityImps_
          /\ LeafIndexUpdateSet(entityImps_) = indexSets.leaf

\* the level-0 pass has been run on two triangles that createGrid had
\* already numbered by the same pass
C22_Witness ==
    /\ LevelPassDone(0)
    /\ refinements = 0
    /\ Len(Elements) >= 2
    /\ \A j \in 1..Len(Elements) : Elements[j].levelIndex = j - 1

\* the entities of codimension c stored at level L
EntitiesAtLevel(c, L) ==
    CASE c = 0 -> AtLevel(Elements, L)
      [] c = 1 -> AtLevel(Edges, L)
      [] OTHER -> AtLevel(Vertices, L)

\* the list geomTypes(c) is to hold when the set S of entities of
\* codimension c is the one the index set covers
SimplexIfAny(c, S) == IF S # {} THEN <<GeometryType(dim - c)>> ELSE <<>>

\* C23: after a level index pass of level L, and after a leaf index pass,
\* geomTypes(c) is the one-element list with the simplex of dimension 2-c
\* when an entity of codimension c exists at level L (among the leaves),
\* and the empty list otherwise, for c = 0, 1, 2.
C23_GeomTypesPresent ==
    /\ \A L \in 0..MaxLevel :
          LevelPassDone(L) =>
              \A c \in 0..dim :
                  indexSets.level[L + 1].myTypes_[c]
                     = SimplexIfAny(c, EntitiesAtLevel(c, L))
    /\ LeafPassReturned =>
          \A c \in 0..dim :
              indexSets.leaf.myTypes_[c] = SimplexIfAny(c, LeafEntities(c))

\* the ids of list s are 0, 1, 2, ... in list order and the counter stands
\* at the next value
DrawnInOrder(s, counter) ==
    /\ \A j \in 1..Len(s) : s[j].id = j - 1
    /\ counter = Len(s)

\* C24: in every state of the factory the ids of the vertices, of the edges
\* and of the elements are each pairwise distinct and strictly increasing in
\* creation order, every entity holding the value its codimension's own
\* counter had when the entity was created.
C24_IdsNeverReused ==
    /\ DrawnInOrder(Vertices, freeIdCounter_[0])
    /\ DrawnInOrder(Edges, freeIdCounter_[1])
    /\ DrawnInOrder(Elements, freeIdCounter_[dim])
    /\ \A s \in {Vertices, Edges, Elements} :
          \A j, k \in 1..Len(s) : j < k => s[j].id < s[k].id

\* a created grid of two triangles with a shared edge: four vertices, five
\* edges and two elements have drawn ids from three counters
C24_Witness ==
    /\ GridCreated
    /\ Len(Vertices) >= 4
    /\ Len(Elements) = 2
    /\ Len(Edges) = 5
    /\ freeIdCounter_[1] = 5

\* every entry of list s is still in its place in list t, with its id
IdsKept(s, t) ==
    /\ Len(t) >= Len(s)
    /\ \A j \in 1..Len(s) : t[j].id = s[j].id

\* C25: no step of the grid (a level index pass, a leaf index pass, an
\* id-set update, a refinement step, the factory's calls) changes the id of
\* an entity that exists before the step.
C25_IdStability ==
    [][/\ IdsKept(Vertices, Vertices')
       /\ IdsKept(Edges, Edges')
       /\ IdsKept(Elements, Elements')]_vars

\* a refined grid after a leaf index pass: the level-0 entities still hold
\* the ids they drew in the factory and the children hold later ones
C25_Witness ==
    /\ LeafPassReturned
    /\ refinements >= 1
    /\ \E t \in 1..Len(Elements) :
          /\ ~ElementIsLeaf(Elements[t])
          /\ Elements[t].id = t - 1
          /\ \A k \in 1..Len(Elements[t].sons) :
                Elements[Elements[t].sons[k]].id > Elements[t].id
    /\ \A d \in 1..Len(Edges) : Edges[d].level = 0 => Edges[d].id = d - 1

\* the last operation was a sub-index or sub-id query
SubQueryDone == call.op \in {"subLevelIndex", "subLeafIndex", "subId"}

\* C26: a sub-index or sub-id query of an element with a codimension
\* outside {0, 1, 2}, or of an edge with a codimension outside {1, 2}, ends
\* in the GridError outcome and returns no value.
C26_InvalidCodimIsGridError ==
    SubQueryDone =>
        /\ (call.kind = "element" /\ call.codim \notin 0..dim) =>
               call.outcome = "GridError"
        /\ (call.kind = "edge" /\ call.codim \notin 1..2) =>
               call.outcome = "GridError"

\* list t is list s with the entities in their places, on level 0, and
\* (elements) with their corners
SameEntities(s, t) ==
    /\ Len(t) = Len(s)
    /\ \A j \in 1..Len(s) : t[j].level = 0 /\ t[j].id = s[j].id

\* C27: an insertVertex call appends one level-0 vertex and an insertElement
\* call one level-0 element whose corners 0, 1, 2 are the a-th, b-th and
\* c-th inserted vertices; createGrid keeps every vertex and every element
\* in its place, referenced by an element or not.
C27_Level0HoldsInsertedEntities ==
    [][/\ call'.op = "insertVertex" =>
             /\ Len(Vertices') = Len(Vertices) + 1
             /\ SubSeq(Vertices', 1, Len(Vertices)) = Vertices
             /\ Vertices'[Len(Vertices')].level = 0
             /\ Elements' = Elements
       /\ (call'.op = "insertElement" /\ call'.outcome = "returned") =>
             /\ Len(Elements') = Len(Elements) + 1
             /\ SubSeq(Elements', 1, Len(Elements)) = Elements
             /\ Elements'[Len(Elements')].level = 0
             /\ \A k \in 1..corners :
                   /\ Elements'[Len(Elements')].vertex[k] \in 1..Len(Vertices)
                   /\ Vertices[Elements'[Len(Elements')].vertex[k]].id
                         = call'.vertices[k]
             /\ Vertices' = Vertices
       /\ call'.op = "createGrid" =>
             /\ SameEntities(Vertices, Vertices')
             /\ SameEntities(Elements, Elements')
             /\ \A t \in 1..Len(Elements) :
                   Elements'[t].vertex = Elements[t].vertex]_vars

\* a created grid of five vertices and two triangles in which a vertex is
\* a corner of no element
C27_Witness ==
    /\ GridCreated
    /\ Len(Elements) = 2
    /\ Len(Vertices) = 5
    /\ Cardinality({v \in 1..Len(Vertices) :
          \A t \in 1..Len(Elements), k \in 1..corners :
              Elements[t].vertex[k] # v}) = 1
    /\ Elements[2].vertex # Elements[1].vertex

\* C28: an insertElement call with a geometry type other than triangle is
\* rejected fatally: the call does not return, no element is appended and
\* no element id is drawn.
C28_NonTriangleRejected ==
    [][(call'.op = "insertElement" /\ call'.type # "triangle") =>
          /\ call'.outcome = "aborted"
          /\ Elements' = Elements
          /\ freeIdCounter_' = freeIdCounter_]_vars

\* the created grid is the unit square: four vertices, two triangles with the
\* diagonal as their one common side
UnitSquare ==
    /\ GridCreated
    /\ Len(Vertices) = 4
    /\ Len(Elements) = 2
    /\ Len(Edges) = 5

\* C29: on the unit square the enumeration of each triangle, started at
\* local edge 0, stands once on the diagonal with the other triangle as
\* neighbour (no boundary), stands on each of the other two edges as a
\* boundary intersection without neighbour, and then is at the end.
C29_UnitSquareAdjacency ==
    UnitSquare =>
        \A t \in 1..Len(Elements) :
            LET begin == LevelIntersectionIterator(entityImps_, t, 0)
                run   == LevelRun(begin, RunBound(t))
                seen  == {run[k] : k \in 1..Len(run)}
            IN  /\ \A i \in 0..(corners - 1) :
                      IF IncidenceCount(t, i) = 2
                      THEN \E s \in seen :
                              /\ s.edgeIndex_ = i
                              /\ NeighborIntersection(s)
                              /\ ~BoundaryIntersection(s)
                              /\ Outside(s) = 3 - t
                      ELSE \E s \in seen :
                              /\ s.edgeIndex_ = i
                              /\ BoundaryIntersection(s)
                /\ AtEnd(After(begin, RunBound(t)))

\* FoamGrid::size(level, codim): the number of entities of the codimension
\* stored at the level
GridSize(L, codim) == Cardinality(EntitiesAtLevel(codim, L))

\* FoamGridLevelIndexSet::size(codim) of the index set of level L
LevelSize(L, codim) == GridSize(indexSets.level[L + 1].level_, codim)

\* the edges with two incident elements
SharedEdges == {d \in 1..Len(Edges) : Len(Edges[d].elements) = 2}

\* the unit square has one shared edge, the diagonal, with both triangles
DiagonalIncidenceTwo ==
    /\ Cardinality(SharedEdges) = 1
    /\ \A d \in SharedEdges :
          {Edges[d].elements[k] : k \in 1..2} = {1, 2}

EdgeChildren(d) == {Edges[d].sons[k] : k \in 1..2} \ {NULL}

\* C32: in every state each edge has no child edge or exactly two: sons_[0]
\* is null iff sons_[1] is null iff nSons_ is 0; an edge as its constructor
\* leaves it, with or without father, is a leaf; isLeaf(), which reads
\* sons_[0] only, is true exactly for the edges without children.
C32_EdgeSonsNoneOrTwo ==
    /\ \A d \in 1..Len(Edges) :
          /\ (Edges[d].sons[1] = NULL) <=> (Edges[d].sons[2] = NULL)
          /\ (Edges[d].sons[1] = NULL) <=> (Edges[d].nSons = 0)
          /\ Edges[d].nSons = Cardinality(EdgeChildren(d))
          /\ Cardinality(EdgeChildren(d)) \in {0, 2}
          /\ EdgeIsLeaf(Edges[d]) <=> EdgeChildren(d) = {}
    /\ \A father \in 0..Len(Edges) :
          LET e == NewEdge(1, 2, 0, 0, father)
          IN  EdgeIsLeaf(e) /\ e.nSons = 0 /\ e.sons = <<NULL, NULL>>

\* a refined grid: an edge with two children, each constructed with the
\* edge as father and still a leaf
C32_Witness ==
    \E d \in 1..Len(Edges) :
        /\ ~EdgeIsLeaf(Edges[d])
        /\ Edges[d].nSons = 2
        /\ \A c \in EdgeChildren(d) :
              Edges[c].father = d /\ EdgeIsLeaf(Edges[c])

\* C33 as stated: from the leaf intersection iterator constructed at local
\* edge 0 of any element, boundary edge or not, repeated increments reach
\* the end state (the top-level edge iterator at the end of the edge map)
\* after finitely many steps, and the neighbour position is never beyond
\* the end of the vector it runs through.
C33_LeafEnumerationReachesEnd ==
    GridCreated =>
        \A t \in 1..Len(Elements) :
            LET begin == LeafIntersectionIterator(entityImps_, t, 0)
                run   == LeafRun(begin, LeafRunBound(begin))
                last  == LeafRunLast(begin, LeafRunBound(begin))
            IN  /\ last.status = "ok"
                /\ last.topLevelEdgeIter_ = corners
                /\ \A k \in 1..Len(run) :
                      /\ StepDefined(run[k])
                      /\ run[k].neighbor_ <= Len(run[k].leafEdges_[run[k].vec])

\* C34 as stated: an intersection of a leaf enumeration carries, as its
\* edgeIndex_, the local edge from whose collected vector its neighbour is
\* taken, also after increment has moved on to the vector of the next edge.
C34_LeafEdgeIndexFollows ==
    (LeafLive(lit) /\ LeafHasNeighbor(lit)) => lit.edgeIndex_ = lit.vec

\* the descendants of element t of level at most maxlevel
DescendantsWithin(t, maxlevel) ==
    {c \in ElementDescendants(Elements, t) : Elements[c].level <= maxlevel}

TargetIsTop(s) ==
    /\ (s.target = NULL) <=> (s.elemStack = <<>>)
    /\ s.elemStack # <<>> => s.target = s.elemStack[Len(s.elemStack)]

Contiguous(s, S, f) ==
    /\ \A j, k \in S : s[j][f] = s[k][f] => j = k
    /\ {s[j][f] : j \in S} = 0..(Cardinality(S) - 1)

\* C37: when createGrid has returned the grid, the index pass has run on the
\* complete topology: the level-0 elements and vertices carry contiguous
\* level indices, and the leaf elements, the edges created by createGrid and
\* the leaf vertices carry leaf indices that are 0 .. size(codim)-1.
C37_IndicesFreshAfterCreateGrid ==
    (call.op = "createGrid" /\ GridCreated) =>
        /\ Contiguous(Elements, AtLevel(Elements, 0), "levelIndex")
        /\ Contiguous(Vertices, AtLevel(Vertices, 0), "levelIndex")
        /\ indexSets.level # <<>>
        /\ indexSets.level[1].numElements_ = Len(Elements)
        /\ indexSets.level[1].numVertices_ = Len(Vertices)
        /\ Contiguous(Elements, LeafEntities(0), "leafIndex")
        /\ Contiguous(Edges, LeafEntities(1), "leafIndex")
        /\ Contiguous(Vertices, LeafEntities(2), "leafIndex")
        /\ \A codim \in 0..dim : LeafSize(codim) = Cardinality(LeafEntities(codim))
        /\ LeafEntities(1) = 1..Len(Edges)

\* createGrid has just returned a grid of two triangles with a common side
\* and has numbered its five edges
C37_Witness ==
    /\ call.op = "createGrid"
    /\ created = <<"grid">>
    /\ Len(Elements) = 2
    /\ Len(Edges) = 5
    /\ Edges[5].leafIndex = 4
    /\ Elements[2].levelIndex = 1

\* the sum of the incidence-list sizes of the first n edges
RECURSIVE IncidenceSum(_)
IncidenceSum(n) ==
    IF n = 0 THEN 0 ELSE Len(Edges[n].elements) + IncidenceSum(n - 1)

\* C38: after createGrid, for every level-0 element T and every edge d the
\* number of local slots of T that hold d equals the number of entries of
\* d's incidence list that are T; every slot of every element holds an edge
\* whose two vertices are corners of the element; the sizes of the
\* incidence lists sum to three times the number of elements.
C38_IncidenceBothWays ==
    GridCreated =>
        /\ \A t \in Level0Elements : \A d \in 1..Len(Edges) :
              Cardinality({i \in 1..corners : Elements[t].edges[i] = d})
                 = Cardinality({k \in 1..Len(Edges[d].elements) :
                                   Edges[d].elements[k] = t})
        /\ \A t \in Level0Elements : \A i \in 1..corners :
              /\ Elements[t].edges[i] # NULL
              /\ Elements[t].edges[i] \in 1..Len(Edges)
              /\ EdgePair(Elements[t].edges[i])
                    \subseteq {Elements[t].vertex[k] : k \in 1..corners}
        /\ IncidenceSum(Len(Edges)) = corners * Len(Elements)

\* a created grid of three triangles on one common side: the edge of that
\* side lists the three elements, seven edges carry nine entries
C38_Witness ==
    /\ GridCreated
    /\ Len(Elements) = 3
    /\ Len(Edges) = 7
    /\ \E d \in 1..Len(Edges) : Len(Edges[d].elements) = 3
    /\ IncidenceSum(Len(Edges)) = 9

\* entity b is entity a but for its levelIndex, which may differ when the
\* entity is stored at level L
SameButLevelIndex(a, b, L) ==
    /\ [b EXCEPT !.levelIndex = a.levelIndex] = a
    /\ a.level # L => b = a

\* list t begins with the entries of list s, unchanged
KeepsEntries(s, t) ==
    /\ Len(t) >= Len(s)
    /\ \A j \in 1..Len(s) : t[j] = s[j]

\* C39: a level index pass of level L writes the levelIndex of the elements
\* and vertices stored at level L and the set's own counts and type lists,
\* and nothing else: no edge, no entity of another level, no leafIndex, no
\* reference between entities, no other index set; insertVertex and
\* insertElement write no field of an entity that exists.
C39_LevelPassFrame ==
    [][/\ call'.op = "LevelIndexSet::update" =>
             /\ Edges' = Edges
             /\ Len(Elements') = Len(Elements)
             /\ Len(Vertices') = Len(Vertices)
             /\ \A j \in 1..Len(Elements) :
                   SameButLevelIndex(Elements[j], Elements'[j], call'.level)
             /\ \A j \in 1..Len(Vertices) :
                   SameButLevelIndex(Vertices[j], Vertices'[j], call'.level)
             /\ indexSets'.leaf = indexSets.leaf
             /\ \A l \in 1..Len(indexSets.level) :
                   l # call'.level + 1 => indexSets'.level[l] = indexSets.level[l]
             /\ freeIdCounter_' = freeIdCounter_
       /\ call'.op \in {"insertVertex", "insertElement"} =>
             /\ KeepsEntries(Vertices, Vertices')
             /\ KeepsEntries(Elements, Elements')
             /\ Edges' = Edges
             /\ indexSets' = indexSets]_vars

\* the pass of level 0 has run on a refined grid: the level-0 elements are
\* numbered, the elements of level 1 still hold no level index
C39_Witness ==
    /\ LevelPassDone(0)
    /\ refinements >= 1
    /\ \E j \in AtLevel(Elements, 0) : Elements[j].levelIndex = 1
    /\ \E j \in AtLevel(Elements, 1) : Elements[j].levelIndex = Unset
    /\ \E j \in AtLevel(Vertices, 1) : Vertices[j].levelIndex = Unset

====
